---------------------------- MODULE Spec2Model ----------------------------
(***************************************************************************)
(* A model of fastnbt: the NBT pull parser (fastnbt/src/nbt/mod.rs) and    *)
(* the Anvil region reader (fastnbt/src/anvil/mod.rs).                     *)
(*                                                                         *)
(* Bytes are integers 0..255.  A byte source is the sequence of the bytes  *)
(* it has not yet delivered.  Option<String> is <<>> for None and <<s>>    *)
(* for Some(s), s being the string's bytes.                                *)
(***************************************************************************)
EXTENDS Integers, Sequences, FiniteSets, TLC

VARIABLES
    phase,      \* nbt: "off", "encode" (the input is being written), "parse"
    reader,     \* Parser.reader: the bytes not yet read
    layers,     \* Parser.layers: the stack of open lists and compounds
    last,       \* the result of the latest next() call
    out,        \* the values the next() calls have returned so far, in order
    calls,      \* how many next() calls were made
    nread,      \* how many bytes the latest next() call took from the reader
    prior,      \* Parser.layers as the latest next() call found it
    helper,     \* the latest skip_compound or find_list call and its result
    doc,        \* encoder: the tokens written so far, in document order
    enc,        \* encoder: the stack of containers still open
    valid,      \* encoder: the input is well formed so far (every list
                \* count >= 0, no list of End elements, nothing cut off or
                \* added)
    apc,        \* anvil: "off", "builder", "source", "open", "each", "panic"
    bld,        \* Builder.inner
    made,       \* how the source was made: "build", "build_unpadded", "given"
    data,       \* Region.data: the content of the byte source
    dpos,       \* Region.data: its position
    locations,  \* Region.locations
    timestamps, \* Region.timestamps
    ret,        \* the latest operation on the region and what it returned
    offsets,    \* for_each_chunk: the chunks not yet visited
    buf,        \* the buffer load_chunk filled last
    fcalls,     \* for_each_chunk: the calls of f so far, in order
    trace,      \* for_each_chunk: its loads and calls of f, in order
    mdata,      \* ChunkMeta::new: the slice it is given
    mret        \* ChunkMeta::new: what it returned

nbtVars == <<phase, reader, layers, last, out, calls, nread, prior, helper,
            doc, enc, valid>>

anvilVars == <<apc, bld, made, data, dpos, locations, timestamps, ret, offsets,
               buf, fcalls, trace>>

metaVars == <<mdata, mret>>

vars == <<phase, reader, layers, last, out, calls, nread, prior, helper,
          doc, enc, valid,
          apc, bld, made, data, dpos, locations, timestamps, ret, offsets,
          buf, fcalls, trace, mdata, mret>>

(***************************************************************************)
(* Bounds of the model.                                                    *)
(***************************************************************************)
MaxTokens == 6      \* tokens of a generated document, terminators included
MaxDepth == 3       \* open containers of a generated document
MaxCount == 2       \* largest list count the encoder declares
ExtraCalls == 2     \* next() calls made beyond the document's tokens
MaxLocations == 2   \* Builder::location calls before build
MaxMetaLen == 6     \* longest slice given to ChunkMeta::new
MaxCut == 1         \* bytes cut off the end of a truncated input
MaxCutTokens == 4   \* tokens of a truncated input, before the cut

(***************************************************************************)
(* nbt/mod.rs: Tag                                                         *)
(***************************************************************************)
TagEnd == 0
TagByte == 1
TagShort == 2
TagInt == 3
TagLong == 4
TagFloat == 5
TagDouble == 6
TagByteArray == 7
TagString == 8
TagList == 9
TagCompound == 10
TagIntArray == 11
TagLongArray == 12

\* The two variants of Value that have no tag on the wire.
KListEnd == 100
KCompoundEnd == 101

None == <<>>
Some(s) == <<s>>

\* Value: kind is the variant (a tag code, KListEnd or KCompoundEnd), v the
\* payload as a sequence: <<n>> for Byte/Short/Int, the eight or four raw
\* big-endian bytes for Long/Double/Float, the elements for the arrays, the
\* bytes for String, <<element_tag, size>> for List, <<>> otherwise.
Value(kind, name, v) == [kind |-> kind, name |-> name, v |-> v]
ListEnd == Value(KListEnd, None, <<>>)
CompoundEnd == Value(KCompoundEnd, None, <<>>)
NoValue == Value(-1, None, <<>>)

\* Result<Value>: kind "Ok" carries val; the Error variants carry arg
\* (InvalidTag's byte).  "Panic" is a call that aborted the program.
Ok(v) == [kind |-> "Ok", val |-> v, arg |-> 0]
Err(kind, arg) == [kind |-> kind, val |-> NoValue, arg |-> arg]
NoResult == Err("None", 0)

\* Layer
LayerList(tag, rem) == [kind |-> "List", tag |-> tag, rem |-> rem]
LayerCompound == [kind |-> "Compound", tag |-> 0, rem |-> 0]

I32Min == -2147483647 - 1
I32Max == 2147483647

(***************************************************************************)
(* byteorder::ReadBytesExt over std::io::Read.  A read of n bytes from r   *)
(* succeeds when r holds n bytes.  When it does not, read_exact fails with *)
(* UnexpectedEof and the source is left either where it was or drained,    *)
(* depending on the Read implementation (env.drain).                       *)
(***************************************************************************)
Avail(r, n) == Len(r) >= n
Front(r, n) == SubSeq(r, 1, n)
Drop(r, n) == SubSeq(r, n + 1, Len(r))
AfterShortRead(r, env) == IF env.drain THEN <<>> ELSE r

u8(b) == b[1]
i8(b) == IF b[1] >= 128 THEN b[1] - 256 ELSE b[1]
u16(b) == b[1] * 256 + b[2]
i16(b) == IF b[1] >= 128 THEN u16(b) - 65536 ELSE u16(b)
i32(b) == (IF b[1] >= 128 THEN b[1] - 256 ELSE b[1]) * 16777216
              + b[2] * 65536 + b[3] * 256 + b[4]

\* Reads n big-endian integers of w bytes each (the loops of read_payload's
\* IntArray and LongArray arms).  A LongArray element is kept as its eight
\* raw bytes, an IntArray element as its i32.
RECURSIVE ReadElems(_, _, _, _)
ReadElems(r, n, w, acc) ==
    IF n = 0 THEN [ok |-> TRUE, v |-> acc, reader |-> r]
    ELSE IF ~Avail(r, w) THEN [ok |-> FALSE, v |-> acc, reader |-> r]
    ELSE ReadElems(Drop(r, w), n - 1, w,
                   Append(acc, IF w = 4 THEN i32(Front(r, 4)) ELSE Front(r, 8)))

(***************************************************************************)
(* std::str::from_utf8: whether the bytes are well-formed UTF-8.           *)
(***************************************************************************)
IsCont(b) == b >= 128 /\ b <= 191

RECURSIVE ValidUtf8(_)
ValidUtf8(s) ==
    IF s = <<>> THEN TRUE
    ELSE LET b == s[1]
             n == Len(s)
         IN  IF b < 128 THEN ValidUtf8(Drop(s, 1))
             ELSE IF b >= 194 /\ b <= 223
                  THEN n >= 2 /\ IsCont(s[2]) /\ ValidUtf8(Drop(s, 2))
             ELSE IF b >= 224 /\ b <= 239
                  THEN /\ n >= 3
                       /\ IsCont(s[2]) /\ IsCont(s[3])
                       /\ (b = 224 => s[2] >= 160)
                       /\ (b = 237 => s[2] <= 159)
                       /\ ValidUtf8(Drop(s, 3))
             ELSE IF b >= 240 /\ b <= 244
                  THEN /\ n >= 4
                       /\ IsCont(s[2]) /\ IsCont(s[3]) /\ IsCont(s[4])
                       /\ (b = 240 => s[2] >= 144)
                       /\ (b = 244 => s[2] <= 143)
                       /\ ValidUtf8(Drop(s, 4))
             ELSE FALSE


(***************************************************************************)
(* nbt/mod.rs: u8_to_tag                                                   *)
(***************************************************************************)
u8_to_tag(tag) ==
    IF tag >= 0 /\ tag <= 12 THEN [ok |-> TRUE, tag |-> tag, err |-> NoResult]
    ELSE [ok |-> FALSE, tag |-> tag, err |-> Err("InvalidTag", tag)]

\* What a call returns together with the parser it leaves behind.
Ret(res, r, ly) == [res |-> res, reader |-> r, layers |-> ly]

(***************************************************************************)
(* nbt/mod.rs: Parser::read_size_prefixed_string                           *)
(***************************************************************************)
read_size_prefixed_string(r, env) ==
    IF ~Avail(r, 2)
    THEN [res |-> Err("IO", 0), s |-> <<>>, reader |-> AfterShortRead(r, env)]
    ELSE LET name_len == u16(Front(r, 2))
             r1 == Drop(r, 2)
         IN  IF ~Avail(r1, name_len)
             THEN [res |-> Err("IO", 0), s |-> <<>>,
                   reader |-> AfterShortRead(r1, env)]
             ELSE IF ~ValidUtf8(Front(r1, name_len))
             THEN [res |-> Err("InvalidName", 0), s |-> <<>>,
                   reader |-> Drop(r1, name_len)]
             ELSE [res |-> Ok(NoValue), s |-> Front(r1, name_len),
                   reader |-> Drop(r1, name_len)]

(***************************************************************************)
(* nbt/mod.rs: Parser::read_payload                                        *)
(***************************************************************************)
\* A scalar of w bytes, decoded by conv.
ReadScalar(tag, name, r, ly, env, w, conv(_)) ==
    IF Avail(r, w)
    THEN Ret(Ok(Value(tag, name, conv(Front(r, w)))), Drop(r, w), ly)
    ELSE Ret(Err("IO", 0), AfterShortRead(r, env), ly)

ScalarInt8(b) == <<i8(b)>>
ScalarInt16(b) == <<i16(b)>>
ScalarInt32(b) == <<i32(b)>>
RawBytes(b) == b

\* vec_u8_into_i8: the same bytes seen as i8.
vec_u8_into_i8(v) == [i \in 1..Len(v) |-> i8(<<v[i]>>)]

ReadList(name, r, ly, env) ==
    IF ~Avail(r, 1) THEN Ret(Err("IO", 0), AfterShortRead(r, env), ly)
    ELSE LET t == u8_to_tag(u8(Front(r, 1)))
             r1 == Drop(r, 1)
         IN  IF ~t.ok THEN Ret(t.err, r1, ly)
             ELSE IF ~Avail(r1, 4)
             THEN Ret(Err("IO", 0), AfterShortRead(r1, env), ly)
             ELSE LET size == i32(Front(r1, 4))
                  IN  Ret(Ok(Value(TagList, name, <<t.tag, size>>)),
                          Drop(r1, 4),
                          Append(ly, LayerList(t.tag, size)))

\* ByteArray, IntArray and LongArray: an i32 size, then size elements of w
\* bytes.  vec![0; size as usize] aborts on a negative size.
ReadArray(tag, name, r, ly, env, w) ==
    IF ~Avail(r, 4) THEN Ret(Err("IO", 0), AfterShortRead(r, env), ly)
    ELSE LET size == i32(Front(r, 4))
             r1 == Drop(r, 4)
         IN  IF size < 0 THEN Ret(Err("Panic", 0), r1, ly)
             ELSE IF w = 1
             THEN IF Avail(r1, size)
                  THEN Ret(Ok(Value(tag, name, vec_u8_into_i8(Front(r1, size)))),
                           Drop(r1, size), ly)
                  ELSE Ret(Err("IO", 0), AfterShortRead(r1, env), ly)
             ELSE LET e == ReadElems(r1, size, w, <<>>)
                  IN  IF e.ok THEN Ret(Ok(Value(tag, name, e.v)), e.reader, ly)
                      ELSE Ret(Err("IO", 0), AfterShortRead(e.reader, env), ly)

read_payload(tag, name, r, ly, env) ==
    CASE tag = TagByte -> ReadScalar(tag, name, r, ly, env, 1, ScalarInt8)
      [] tag = TagShort -> ReadScalar(tag, name, r, ly, env, 2, ScalarInt16)
      [] tag = TagInt -> ReadScalar(tag, name, r, ly, env, 4, ScalarInt32)
      [] tag = TagLong -> ReadScalar(tag, name, r, ly, env, 8, RawBytes)
      [] tag = TagFloat -> ReadScalar(tag, name, r, ly, env, 4, RawBytes)
      [] tag = TagDouble -> ReadScalar(tag, name, r, ly, env, 8, RawBytes)
      [] tag = TagCompound ->
            Ret(Ok(Value(TagCompound, name, <<>>)), r, Append(ly, LayerCompound))
      [] tag = TagEnd -> Ret(Err("Panic", 0), r, ly)
      [] tag = TagList -> ReadList(name, r, ly, env)
      [] tag = TagString ->
            LET s == read_size_prefixed_string(r, env)
            IN  IF s.res.kind = "Ok"
                THEN Ret(Ok(Value(TagString, name, s.s)), s.reader, ly)
                ELSE Ret(s.res, s.reader, ly)
      [] tag = TagByteArray -> ReadArray(tag, name, r, ly, env, 1)
      [] tag = TagIntArray -> ReadArray(tag, name, r, ly, env, 4)
      [] tag = TagLongArray -> ReadArray(tag, name, r, ly, env, 8)

(***************************************************************************)
(* nbt/mod.rs: Parser::next_inner                                          *)
(***************************************************************************)
Top(ly) == ly[Len(ly)]
Pop(ly) == SubSeq(ly, 1, Len(ly) - 1)

DecrementTop_forgotten(ly) == ly

\* `*remainder -= 1` on the top layer when it is a list.  The subtraction
\* overflows at i32::MIN: a build with overflow checks aborts there, one
\* without wraps.
DecrementTop(ly) ==
    IF ly # <<>> /\ Top(ly).kind = "List"
    THEN [ly EXCEPT ![Len(ly)].rem =
             IF @ = I32Min THEN I32Max ELSE @ - 1]
    ELSE ly

DecrementOverflows(ly) ==
    ly # <<>> /\ Top(ly).kind = "List" /\ Top(ly).rem = I32Min

ReadTagged_eof_pops(r, ly, env) ==
    IF ~Avail(r, 1) THEN Ret(Err("EOF", 0), r, IF ly = <<>> THEN ly ELSE Pop(ly))
    ELSE LET t == u8_to_tag(u8(Front(r, 1)))
             r1 == Drop(r, 1)
         IN  IF ~t.ok THEN Ret(t.err, r1, ly)
             ELSE IF t.tag = TagEnd
             THEN IF ly # <<>> /\ Top(ly).kind = "Compound"
                  THEN Ret(Ok(CompoundEnd), r1, Pop(ly))
                  ELSE Ret(Err("InvalidTag", 0), r1, ly)
             ELSE LET s == read_size_prefixed_string(r1, env)
                  IN  IF s.res.kind # "Ok" THEN Ret(s.res, s.reader, ly)
                      ELSE read_payload(t.tag, Some(s.s), s.reader, ly, env)

\* From the tag byte on: lines 189-214.
ReadTagged(r, ly, env) ==
    IF ~Avail(r, 1) THEN Ret(Err("EOF", 0), r, ly)
    ELSE LET t == u8_to_tag(u8(Front(r, 1)))
             r1 == Drop(r, 1)
         IN  IF ~t.ok THEN Ret(t.err, r1, ly)
             ELSE IF t.tag = TagEnd
             THEN IF ly # <<>> /\ Top(ly).kind = "Compound"
                  THEN Ret(Ok(CompoundEnd), r1, Pop(ly))
                  ELSE Ret(Err("InvalidTag", 0), r1, ly)
             ELSE LET s == read_size_prefixed_string(r1, env)
                  IN  IF s.res.kind # "Ok" THEN Ret(s.res, s.reader, ly)
                      ELSE read_payload(t.tag, Some(s.s), s.reader, ly, env)

next_inner_named_elements(r, ly, env) ==
    IF ly # <<>> /\ Top(ly).kind = "List" /\ Top(ly).rem = 0
    THEN Ret(Ok(ListEnd), r, Pop(ly))
    ELSE IF DecrementOverflows(ly) /\ env.overflow_checks
    THEN Ret(Err("Panic", 0), r, ly)
    ELSE LET ly1 == DecrementTop(ly)
         IN  IF ly1 # <<>> /\ Top(ly1).kind = "List"
             THEN read_payload(Top(ly1).tag, Some(<<>>), r, ly1, env)
             ELSE ReadTagged(r, ly1, env)

next_inner_keeps_list(r, ly, env) ==
    IF ly # <<>> /\ Top(ly).kind = "List" /\ Top(ly).rem = 0
    THEN Ret(Ok(ListEnd), r, ly)
    ELSE IF DecrementOverflows(ly) /\ env.overflow_checks
    THEN Ret(Err("Panic", 0), r, ly)
    ELSE LET ly1 == DecrementTop(ly)
         IN  IF ly1 # <<>> /\ Top(ly1).kind = "List"
             THEN read_payload(Top(ly1).tag, None, r, ly1, env)
             ELSE ReadTagged(r, ly1, env)

next_inner(r, ly, env) ==
    IF ly # <<>> /\ Top(ly).kind = "List" /\ Top(ly).rem = 0
    THEN Ret(Ok(ListEnd), r, Pop(ly))
    ELSE IF DecrementOverflows(ly) /\ env.overflow_checks
    THEN Ret(Err("Panic", 0), r, ly)
    ELSE LET ly1 == DecrementTop(ly)
         IN  IF ly1 # <<>> /\ Top(ly1).kind = "List"
             THEN read_payload(Top(ly1).tag, None, r, ly1, env)
             ELSE ReadTagged(r, ly1, env)

\* nbt/mod.rs: Parser::next
next(r, ly, env) == next_inner(r, ly, env)

(***************************************************************************)
(* nbt/mod.rs: skip_compound and find_list, the loops over Parser::next.   *)
(* A loop's state: the parser (reader, layers), what the latest next()     *)
(* returned (res), the stack it found (before), the bytes it took (nread)  *)
(* and the values returned so far (vals, n of them or one call more when   *)
(* the latest failed).                                                     *)
(***************************************************************************)
LoopStart(r, ly) ==
    [reader |-> r, layers |-> ly, res |-> NoResult, before |-> ly, nread |-> 0,
     vals |-> <<>>, n |-> 0]

\* The loop's state once parser.next() has returned c.
LoopAfter(lp, c) ==
    [reader |-> c.reader, layers |-> c.layers, res |-> c.res,
     before |-> lp.layers, nread |-> Len(lp.reader) - Len(c.reader),
     vals |-> IF c.res.kind = "Ok" THEN Append(lp.vals, c.res.val)
              ELSE lp.vals,
     n |-> lp.n + 1]

LoopTurn(lp, env) == LoopAfter(lp, next(lp.reader, lp.layers, env))

\* `size as usize` of an i32 on a 64-bit target: the value sign-extended to
\* 64 bits, here as four 16-bit limbs, the most significant first.
as_usize(n) ==
    IF n >= 0 THEN <<0, 0, n \div 65536, n % 65536>>
    ELSE LET m == -(n + 1)
         IN  <<65535, 65535, 65535 - (m \div 65536), 65535 - (m % 65536)>>

\* What a helper returned, kind being "Ok" or the error that left its loop
\* by `?`, and the loop's last state.
Left(kind, size, lp) == [kind |-> kind, size |-> size, lp |-> lp]

\* The depth counter of skip_compound after value v.
skip_depth_counts_lists(depth, v) ==
    IF v.kind = KCompoundEnd THEN depth - 1
    ELSE IF v.kind \in {TagCompound, TagList} THEN depth + 1
    ELSE depth

skip_depth(depth, v) ==
    IF v.kind = KCompoundEnd THEN depth - 1
    ELSE IF v.kind = TagCompound THEN depth + 1
    ELSE depth

\* `while depth != 0 { let value = parser.next()?; match value {..} }`, t
\* being the loop's state after this turn's parser.next().
RECURSIVE skip_compound_loop(_, _, _)
skip_compound_turn(t, env, depth) ==
    IF t.res.kind # "Ok" THEN Left(t.res.kind, <<>>, t)
    ELSE skip_compound_loop(t, env, skip_depth(depth, t.res.val))

skip_compound_loop(lp, env, depth) ==
    IF depth = 0 THEN Left("Ok", <<>>, lp)
    ELSE skip_compound_turn(LoopTurn(lp, env), env, depth)

skip_compound(r, ly, env) == skip_compound_loop(LoopStart(r, ly), env, 1)

\* `loop { match parser.next()? {..} }`, t being the loop's state after this
\* turn's parser.next().
RECURSIVE find_list_loop(_, _, _)
find_list_turn(t, env, name) ==
    IF t.res.kind # "Ok" THEN Left(t.res.kind, <<>>, t)
    ELSE IF t.res.val.kind = TagList /\ t.res.val.name = name
    THEN Left("Ok", as_usize(t.res.val.v[2]), t)
    ELSE find_list_loop(t, env, name)

find_list_loop(lp, env, name) == find_list_turn(LoopTurn(lp, env), env, name)

find_list(r, ly, env, name) == find_list_loop(LoopStart(r, ly), env, name)

\* The record of a helper call: its name argument, its result (kind, size),
\* the stack it was entered with (entry), the stack the next() call before
\* it had found (found) and how many values next() had returned by then.
Helper(op, name, kind, size, entry, found, at) ==
    [op |-> op, name |-> name, kind |-> kind, size |-> size, entry |-> entry,
     found |-> found, at |-> at]
NoHelper == Helper("none", None, "None", <<>>, <<>>, <<>>, 0)


(***************************************************************************)
(* The NBT wire format, as an encoder writes it: the input of the parser.  *)
(* A document is written token by token in document order; doc records the *)
(* tokens (the Values of the tree in pre-order, each container followed by *)
(* its children and its terminator) and reader the bytes.                  *)
(***************************************************************************)
BeByte(n, k) == (n \div k) % 256
EncU16(n) == <<BeByte(n, 256), BeByte(n, 1)>>
EncI16(n) == EncU16(IF n < 0 THEN n + 65536 ELSE n)
EncI32(n) ==
    IF n >= 0
    THEN <<BeByte(n, 16777216), BeByte(n, 65536), BeByte(n, 256), BeByte(n, 1)>>
    ELSE LET m == -(n + 1)
         IN  <<255 - BeByte(m, 16777216), 255 - BeByte(m, 65536),
               255 - BeByte(m, 256), 255 - BeByte(m, 1)>>
EncI8(n) == IF n < 0 THEN n + 256 ELSE n
EncString(s) == EncU16(Len(s)) \o s

RECURSIVE Flatten(_)
Flatten(ss) == IF ss = <<>> THEN <<>> ELSE ss[1] \o Flatten(Drop(ss, 1))

EncPayload(val) ==
    CASE val.kind = TagByte -> <<EncI8(val.v[1])>>
      [] val.kind = TagShort -> EncI16(val.v[1])
      [] val.kind = TagInt -> EncI32(val.v[1])
      [] val.kind \in {TagLong, TagFloat, TagDouble} -> val.v
      [] val.kind = TagString -> EncString(val.v)
      [] val.kind = TagByteArray ->
            EncI32(Len(val.v)) \o [i \in 1..Len(val.v) |-> EncI8(val.v[i])]
      [] val.kind = TagIntArray ->
            EncI32(Len(val.v))
                \o Flatten([i \in 1..Len(val.v) |-> EncI32(val.v[i])])
      [] val.kind = TagLongArray -> EncI32(Len(val.v)) \o Flatten(val.v)
      [] val.kind = TagList -> <<val.v[1]>> \o EncI32(val.v[2])
      [] val.kind = TagCompound -> <<>>

\* A token's bytes: a named value is tag, name, payload; a list element is
\* its payload alone; a compound ends with an End tag; a list has no end
\* marker.
EncToken(val) ==
    CASE val.kind = KCompoundEnd -> <<TagEnd>>
      [] val.kind = KListEnd -> <<>>
      [] val.name = None -> EncPayload(val)
      [] OTHER -> <<val.kind>> \o EncString(val.name[1]) \o EncPayload(val)

\* The names and the leaf values the encoder writes: the root's name is
\* empty or not, a child's is "a".
EncRootNames == {<<>>, <<97>>}
EncNames == {<<97>>}
EncLeaves ==
    { <<TagByte, <<-1>>>>,
      <<TagInt, <<66051>>>>,
      <<TagString, <<10>>>>,
      <<TagIntArray, <<-2, 3>>>> }
EncElemTags == {TagEnd, TagByte, TagCompound, TagList}
EncCounts == (-1)..MaxCount

\* The tokens still owed by the open containers: a terminator each, and a
\* list's remaining elements.
RECURSIVE Owed(_)
Owed(e) ==
    IF e = <<>> THEN 0
    ELSE Owed(Pop(e)) + 1 + (IF Top(e).kind = "List" THEN Top(e).rem ELSE 0)

\* A list whose elements are all written ends: it has no end marker on the
\* wire, so this writes no byte.
RECURSIVE CloseLists(_, _)
CloseLists(d, e) ==
    IF e # <<>> /\ Top(e).kind = "List" /\ Top(e).rem = 0
    THEN CloseLists(Append(d, ListEnd), Pop(e))
    ELSE [doc |-> d, enc |-> e]

\* Where a value of this tag may be written, and the name it gets there.
EncSlot(tag, name) ==
    \/ enc = <<>> /\ doc = <<>> /\ tag = TagCompound
         /\ name \in {Some(n) : n \in EncRootNames}
    \/ enc # <<>> /\ Top(enc).kind = "Compound"
         /\ name \in {Some(n) : n \in EncNames}
    \/ enc # <<>> /\ Top(enc).kind = "List" /\ Top(enc).rem > 0
         /\ Top(enc).tag = tag /\ name = None

\* The encoder's stack once one more value is written in the open container.
EncCounted(e) ==
    IF e # <<>> /\ Top(e).kind = "List"
    THEN [e EXCEPT ![Len(e)].rem = @ - 1]
    ELSE e

EncWrite(val, e1, ok) ==
    LET c == CloseLists(Append(doc, val), e1)
    IN  /\ Len(c.doc) + Owed(c.enc) <= MaxTokens
        /\ Len(c.enc) <= MaxDepth
        /\ doc' = c.doc
        /\ enc' = c.enc
        /\ reader' = reader \o EncToken(val)
        /\ valid' = (valid /\ ok)
        /\ UNCHANGED <<phase, layers, last, out, calls, nread, prior, helper>>
        /\ UNCHANGED <<anvilVars, metaVars>>

EncodeLeaf ==
    /\ phase = "encode"
    /\ \E leaf \in EncLeaves, name \in {None} \cup {Some(n) : n \in EncNames} :
          /\ EncSlot(leaf[1], name)
          /\ EncWrite(Value(leaf[1], name, leaf[2]), EncCounted(enc), TRUE)

EncodeCompound ==
    /\ phase = "encode"
    /\ \E name \in {None} \cup {Some(n) : n \in EncNames \cup EncRootNames} :
          /\ EncSlot(TagCompound, name)
          /\ EncWrite(Value(TagCompound, name, <<>>),
                      Append(EncCounted(enc), LayerCompound), TRUE)

\* A list of count n is followed by max(0, n) elements; a list of End
\* elements by none, whatever its count (an End has no payload to write).
EncodeList ==
    /\ phase = "encode"
    /\ \E name \in {None} \cup {Some(n) : n \in EncNames},
          tag \in EncElemTags, n \in EncCounts :
          /\ EncSlot(TagList, name)
          /\ EncWrite(Value(TagList, name, <<tag, n>>),
                      Append(EncCounted(enc),
                             LayerList(tag, IF n < 0 \/ tag = TagEnd THEN 0 ELSE n)),
                      n >= 0 /\ (tag = TagEnd => n = 0))

EncodeEnd ==
    /\ phase = "encode"
    /\ enc # <<>> /\ Top(enc).kind = "Compound"
    /\ EncWrite(CompoundEnd, Pop(enc), TRUE)

EncodeFinish ==
    /\ phase = "encode"
    /\ enc = <<>> /\ doc # <<>>
    /\ phase' = "parse"
    /\ UNCHANGED <<reader, layers, last, out, calls, nread, prior, helper, doc,
                   enc, valid>>
    /\ UNCHANGED <<anvilVars, metaVars>>

\* An input that is not a whole document: the bytes written so far, with
\* containers still open or with up to MaxCut bytes cut off the end.
EncodeCut ==
    /\ phase = "encode"
    /\ Len(doc) <= MaxCutTokens
    /\ \E k \in 0..MaxCut :
          /\ k <= Len(reader)
          /\ k > 0 \/ enc # <<>> \/ doc = <<>>
          /\ reader' = SubSeq(reader, 1, Len(reader) - k)
    /\ valid' = FALSE
    /\ phase' = "parse"
    /\ UNCHANGED <<layers, last, out, calls, nread, prior, helper, doc, enc>>
    /\ UNCHANGED <<anvilVars, metaVars>>

\* An End tag where no compound is open: before the root or after it.
EncodeStrayEnd ==
    /\ phase = "encode"
    /\ enc = <<>>
    /\ reader' = Append(reader, TagEnd)
    /\ valid' = FALSE
    /\ phase' = "parse"
    /\ UNCHANGED <<layers, last, out, calls, nread, prior, helper, doc, enc>>
    /\ UNCHANGED <<anvilVars, metaVars>>

(***************************************************************************)
(* A caller's next() on the parser.                                        *)
(***************************************************************************)
Envs == [drain : BOOLEAN, overflow_checks : BOOLEAN]

ParserNext ==
    /\ phase = "parse"
    /\ last.kind # "Panic"
    /\ calls < Len(doc) + ExtraCalls
    /\ \E env \in Envs :
          LET r == next(reader, layers, env)
          IN  /\ reader' = r.reader
              /\ layers' = r.layers
              /\ last' = r.res
              /\ out' = IF r.res.kind = "Ok" THEN Append(out, r.res.val) ELSE out
              /\ calls' = calls + 1
              /\ nread' = Len(reader) - Len(r.reader)
    /\ prior' = layers
    /\ helper' = NoHelper
    /\ UNCHANGED <<phase, doc, enc, valid>>
    /\ UNCHANGED <<anvilVars, metaVars>>



\* The parser after a helper call that returned r.
HelperDone(op, name, r) ==
    /\ helper' = Helper(op, name, r.kind, r.size, layers, prior, Len(out))
    /\ reader' = r.lp.reader
    /\ layers' = r.lp.layers
    /\ last' = r.lp.res
    /\ out' = out \o r.lp.vals
    /\ calls' = calls + r.lp.n
    /\ nread' = r.lp.nread
    /\ prior' = r.lp.before
    /\ UNCHANGED <<phase, doc, enc, valid>>
    /\ UNCHANGED <<anvilVars, metaVars>>

\* The environments of the helper calls: no list count of a document comes
\* near i32::MIN, so a build with overflow checks stands for both.
HelperEnvs == {env \in Envs : env.overflow_checks}

\* A caller's skip_compound, after a next() that opened a container.
SkipCompound ==
    /\ phase = "parse"
    /\ last.kind = "Ok" /\ last.val.kind \in {TagCompound, TagList}
    /\ calls < Len(doc)
    /\ \E env \in HelperEnvs :
          HelperDone("skip_compound", None, skip_compound(reader, layers, env))

\* A caller's find_list, on a new parser or after a next() that opened a
\* container, for the name the document uses and for no name.
FindNames == {None, Some(<<97>>)}

FindList ==
    /\ phase = "parse"
    /\ \/ calls = 0
       \/ last.kind = "Ok" /\ last.val.kind \in {TagCompound, TagList}
    /\ calls < Len(doc)
    /\ \E env \in HelperEnvs, name \in FindNames :
          HelperDone("find_list", name, find_list(reader, layers, env, name))

(***************************************************************************)
(* Reading the emitted sequence: nesting depth, and a list's elements.     *)
(***************************************************************************)
IsOpener(val) == val.kind \in {TagCompound, TagList}
IsTerminator(val) == val.kind \in {KCompoundEnd, KListEnd}

\* Openers minus terminators among the first k values of s.
RECURSIVE DepthAfter(_, _)
DepthAfter(s, k) ==
    IF k = 0 THEN 0
    ELSE DepthAfter(s, k - 1)
            + (IF IsOpener(s[k]) THEN 1 ELSE IF IsTerminator(s[k]) THEN -1 ELSE 0)

\* The indices after i at which the container opened at s[i] is closed
\* again: the least of them is its terminator.
ClosedAt(s, i) ==
    {j \in (i + 1)..Len(s) : DepthAfter(s, j) = DepthAfter(s, i - 1)}

HasEnd(s, i) == ClosedAt(s, i) # {}
EndOf(s, i) == CHOOSE j \in ClosedAt(s, i) : \A k \in ClosedAt(s, i) : j <= k

\* The direct children of the container opened at s[i] that s holds.
ChildrenOf(s, i) ==
    LET stop == IF HasEnd(s, i) THEN EndOf(s, i) - 1 ELSE Len(s)
    IN  {k \in (i + 1)..stop : DepthAfter(s, k - 1) = DepthAfter(s, i)}

Max0(n) == IF n < 0 THEN 0 ELSE n

(***************************************************************************)
(* C1: on the bytes of a well-formed document (a tree rooted at a single   *)
(* compound, every list count >= 0) the next() calls return exactly the    *)
(* document's tokens in order (the pre-order traversal, each container     *)
(* followed by its children and its terminator); once the root's           *)
(* CompoundEnd is returned the layer stack is empty, and the call after it *)
(* fails with EOF.                                                         *)
(***************************************************************************)
C1_PreOrderThenEof ==
    (phase = "parse" /\ valid) =>
        /\ calls <= Len(doc) =>
              /\ out = SubSeq(doc, 1, calls)
              /\ calls > 0 => last.kind = "Ok"
        /\ calls >= Len(doc) => layers = <<>>
        /\ calls > Len(doc) => (last.kind = "EOF" /\ out = doc)

\* A document with a list of compounds and a two-element list was parsed to
\* its end and the call after it was made.
C1_Witness ==
    /\ phase = "parse" /\ valid
    /\ calls = Len(doc) + 1
    /\ last.kind = "EOF"
    /\ out = doc
    /\ \E i \in 1..Len(doc) :
          doc[i].kind = TagList /\ doc[i].v = <<TagCompound, 1>>

C1_WitnessTwoElements ==
    /\ phase = "parse" /\ valid
    /\ calls = Len(doc)
    /\ out = doc
    /\ \E i \in 1..Len(doc) : doc[i].kind = TagList /\ doc[i].v[2] = 2

(***************************************************************************)
(* C2: after next() returns List(_, tag, n) the parser returns exactly     *)
(* max(0, n) elements of that list and then ListEnd; for n <= 0 the very   *)
(* next call returns ListEnd and reads no byte.                            *)
(***************************************************************************)
C2_ListCount ==
    \A i \in 1..Len(out) :
        out[i].kind = TagList =>
            LET n == out[i].v[2]
                kids == Cardinality(ChildrenOf(out, i))
            IN  /\ kids <= Max0(n)
                /\ HasEnd(out, i) =>
                      (out[EndOf(out, i)] = ListEnd /\ kids = Max0(n))
                \* the call made once the elements are complete returns ListEnd
                /\ (/\ ~HasEnd(out, i)
                    /\ kids = Max0(n)
                    /\ DepthAfter(out, Len(out)) = DepthAfter(out, i))
                      => last.kind = "Ok"
                /\ (n <= 0 /\ i + 1 = Len(out) /\ last.kind = "Ok")
                      => (out[i + 1] = ListEnd /\ nread = 0)

\* The same statement for the lists whose count is not negative.
C2_ListCountNonNegative ==
    valid => C2_ListCount

C2_WitnessEmptyList ==
    /\ phase = "parse" /\ valid
    /\ Len(out) >= 2
    /\ out[Len(out) - 1].kind = TagList /\ out[Len(out) - 1].v[2] = 0
    /\ out[Len(out)] = ListEnd /\ nread = 0


(***************************************************************************)
(* anvil/mod.rs.  The byte source S (Seek + Read) is its content and its   *)
(* position, offsets counted from 0.                                       *)
(***************************************************************************)
SECTOR_SIZE == 4096
HEADER_SIZE == 2 * SECTOR_SIZE
GridSize == 32
SlotCount == 1024

SchemeGzip == 1
SchemeZlib == 2

SrcLen(d) == Len(d)
ByteAt(d, i) == d[i + 1]
ReadAt(d, pos, n) == SubSeq(d, pos + 1, pos + n)

\* TRUE, and v is computed when this is asked.
Evaluated(v) == v = v

\* A big-endian u32 (the model's sources keep it below 2^31).
u32(b) == b[1] * 16777216 + b[2] * 65536 + b[3] * 256 + b[4]

\* ChunkLocation, and Option<ChunkLocation> by `present`.
ChunkLocation(begin_sector, sector_count, x, z) ==
    [present |-> TRUE, begin_sector |-> begin_sector,
     sector_count |-> sector_count, x |-> x, z |-> z]
NoLocation ==
    [present |-> FALSE, begin_sector |-> 0, sector_count |-> 0, x |-> 0, z |-> 0]

\* What an operation on the region returned: op and its arguments ax, az;
\* kind "Ok" or the Error variant ("Panic": the call aborted); loc the
\* ChunkLocation returned, ex, ez InvalidOffset's fields, bytes the Vec<u8>
\* returned.
Result(op, ax, az, kind, loc, ex, ez, bytes) ==
    [op |-> op, ax |-> ax, az |-> az, kind |-> kind, loc |-> loc,
     ex |-> ex, ez |-> ez, bytes |-> bytes]
NoRet == Result("none", 0, 0, "None", NoLocation, 0, 0, <<>>)

(***************************************************************************)
(* anvil/mod.rs: chunk_offset                                              *)
(***************************************************************************)
chunk_offset_transposed(x, z) == (x % 32) * 32 + (z % 32)

chunk_offset(x, z) == (x % 32) + (z % 32) * 32

(***************************************************************************)
(* anvil/mod.rs: Region::new                                               *)
(***************************************************************************)
\* Lines 89-110: one (xpos, zpos) of the decoding loop, on st =
\* [locations, timestamps].
DecodeSlot_no_fix(st, locbuf, xpos, zpos) ==
    LET pos == 4 * chunk_offset(xpos, zpos)
        off == locbuf[pos + 1] * 65536 + locbuf[pos + 2] * 256 + locbuf[pos + 3]
        count == locbuf[pos + 4]
        slot == chunk_offset(xpos, zpos)
    IN  IF off > 0 /\ count > 0
        THEN [st EXCEPT !.locations[slot] = ChunkLocation(off, count, xpos, zpos)]
        ELSE st

DecodeSlot(st, locbuf, xpos, zpos) ==
    LET pos == 4 * chunk_offset(xpos, zpos)
        off == locbuf[pos + 1] * 65536 + locbuf[pos + 2] * 256 + locbuf[pos + 3]
        count == locbuf[pos + 4]
        slot == chunk_offset(xpos, zpos)
    IN  IF off > 0 /\ count > 0
        THEN [st EXCEPT
                 !.locations[slot] = ChunkLocation(off, count, xpos, zpos),
                 !.timestamps[slot] = IF @ = 0 THEN 1 ELSE @]
        ELSE [st EXCEPT !.timestamps[slot] = 0]

\* The loops `for xpos in 0..32 { for zpos in 0..32 {..} }`.  (The test of
\* Evaluated makes TLC compute each turn's result before the next turn.)
RECURSIVE DecodeZ(_, _, _, _)
DecodeZ(st, locbuf, xpos, zpos) ==
    IF zpos = GridSize THEN st
    ELSE LET turn == DecodeSlot(st, locbuf, xpos, zpos)
         IN  IF Evaluated(turn) THEN DecodeZ(turn, locbuf, xpos, zpos + 1)
             ELSE st

RECURSIVE DecodeX(_, _, _)
DecodeX(st, locbuf, xpos) ==
    IF xpos = GridSize THEN st
    ELSE LET row == DecodeZ(st, locbuf, xpos, 0)
         IN  IF Evaluated(row) THEN DecodeX(row, locbuf, xpos + 1) ELSE st

\* Region::new from position pos of source d: "Panic" when either
\* read_exact(..).unwrap() fails, else the decoded region.
region_new(d, pos) ==
    IF SrcLen(d) - pos < SECTOR_SIZE
    THEN [kind |-> "Panic", locations |-> <<>>, timestamps |-> <<>>, pos |-> pos]
    ELSE IF SrcLen(d) - pos < HEADER_SIZE
    THEN [kind |-> "Panic", locations |-> <<>>, timestamps |-> <<>>,
          pos |-> pos + SECTOR_SIZE]
    ELSE LET locbuf == ReadAt(d, pos, SECTOR_SIZE)
             tsbuf == ReadAt(d, pos + SECTOR_SIZE, SECTOR_SIZE)
             st0 == [locations |-> [s \in 0..(SlotCount - 1) |-> NoLocation],
                     timestamps |-> [s \in 0..(SlotCount - 1) |->
                                        u32(SubSeq(tsbuf, 4 * s + 1, 4 * s + 4))]]
             st == DecodeX(st0, locbuf, 0)
         IN  [kind |-> "Ok", locations |-> st.locations,
              timestamps |-> st.timestamps, pos |-> pos + HEADER_SIZE]

(***************************************************************************)
(* anvil/mod.rs: Region::chunk_location                                    *)
(***************************************************************************)
chunk_location_and(locs, x, z) ==
    IF x >= 32 /\ z >= 32
    THEN Result("chunk_location", x, z, "InvalidOffset", NoLocation, x, z, <<>>)
    ELSE IF locs[chunk_offset(x, z)].present
    THEN Result("chunk_location", x, z, "Ok", locs[chunk_offset(x, z)], 0, 0, <<>>)
    ELSE Result("chunk_location", x, z, "ChunkNotFound", NoLocation, 0, 0, <<>>)

chunk_location(locs, x, z) ==
    IF x >= 32 \/ z >= 32
    THEN Result("chunk_location", x, z, "InvalidOffset", NoLocation, x, z, <<>>)
    ELSE IF locs[chunk_offset(x, z)].present
    THEN Result("chunk_location", x, z, "Ok", locs[chunk_offset(x, z)], 0, 0, <<>>)
    ELSE Result("chunk_location", x, z, "ChunkNotFound", NoLocation, 0, 0, <<>>)

(***************************************************************************)
(* anvil/mod.rs: Region::load_chunk.  dest is resized to the chunk's       *)
(* sectors, the source is positioned at the chunk and read_exact fills     *)
(* dest; a source that ends early gives IO.  (Where a failed read_exact    *)
(* leaves the source depends on the Read implementation; every later read  *)
(* of the region is preceded by a seek, so the model leaves it at the seek *)
(* position.)                                                              *)
(***************************************************************************)
load_chunk_partial(d, loc) ==
    LET n == loc.sector_count * SECTOR_SIZE
        at == loc.begin_sector * SECTOR_SIZE
    IN  IF SrcLen(d) - at >= n
        THEN [kind |-> "Ok", dest |-> ReadAt(d, at, n), pos |-> at + n]
        ELSE [kind |-> "Ok", dest |-> <<>>, pos |-> at]

load_chunk(d, loc) ==
    LET n == loc.sector_count * SECTOR_SIZE
        at == loc.begin_sector * SECTOR_SIZE
    IN  IF SrcLen(d) - at >= n
        THEN [kind |-> "Ok", dest |-> ReadAt(d, at, n), pos |-> at + n]
        ELSE [kind |-> "IO", dest |-> <<>>, pos |-> at]

(***************************************************************************)
(* anvil/mod.rs: ChunkMeta::new                                            *)
(***************************************************************************)
NoMeta == [kind |-> "None", len |-> 0, compression_scheme |-> 0]

ChunkMeta_new_accepts_zero(bytes) ==
    IF Len(bytes) < 5
    THEN [kind |-> "InsufficientData", len |-> 0, compression_scheme |-> 0]
    ELSE LET len == u32(SubSeq(bytes, 1, 4))
             scheme == bytes[5]
         IN  IF scheme \in {0, SchemeGzip, SchemeZlib}
             THEN [kind |-> "Ok", len |-> len, compression_scheme |-> scheme]
             ELSE [kind |-> "InvalidChunkMeta", len |-> 0, compression_scheme |-> 0]

ChunkMeta_new(bytes) ==
    IF Len(bytes) < 5
    THEN [kind |-> "InsufficientData", len |-> 0, compression_scheme |-> 0]
    ELSE LET len == u32(SubSeq(bytes, 1, 4))
             scheme == bytes[5]
         IN  IF scheme \in {SchemeGzip, SchemeZlib}
             THEN [kind |-> "Ok", len |-> len, compression_scheme |-> scheme]
             ELSE [kind |-> "InvalidChunkMeta", len |-> 0, compression_scheme |-> 0]

(***************************************************************************)
(* The decompressors (flate2), outside this repository.  The model's       *)
(* streams are a magic byte, a length n and n stored bytes; what follows   *)
(* the stream is not read.  A stream that is cut short or starts with      *)
(* another byte is an error.                                               *)
(***************************************************************************)
ZlibMagic == 120
GzipMagic == 31

Inflate(magic, stream) ==
    IF Len(stream) >= 2 /\ stream[1] = magic /\ Len(stream) >= 2 + stream[2]
    THEN [ok |-> TRUE, bytes |-> SubSeq(stream, 3, 2 + stream[2])]
    ELSE [ok |-> FALSE, bytes |-> <<>>]

ZlibDecoder(stream) == Inflate(ZlibMagic, stream)
GzDecoder(stream) == Inflate(GzipMagic, stream)

(***************************************************************************)
(* anvil/mod.rs: decompress_chunk.  Every failure is an abort: the unwrap  *)
(* of ChunkMeta::new, the panic! for a scheme other than Zlib, the unwrap  *)
(* of read_to_end.                                                         *)
(***************************************************************************)
decompress_chunk(bytes) ==
    LET meta == ChunkMeta_new(bytes)
    IN  IF meta.kind # "Ok" THEN [kind |-> "Panic", bytes |-> <<>>]
        ELSE IF meta.compression_scheme # SchemeZlib
        THEN [kind |-> "Panic", bytes |-> <<>>]
        ELSE LET z == ZlibDecoder(SubSeq(bytes, 6, Len(bytes)))
             IN  IF z.ok THEN [kind |-> "Ok", bytes |-> z.bytes]
                 ELSE [kind |-> "Panic", bytes |-> <<>>]

(***************************************************************************)
(* anvil/mod.rs: Region::for_each_chunk, lines 168-183: the list of the    *)
(* chunks to visit.  chunk_location's error leaves the function by `?`.    *)
(***************************************************************************)
RECURSIVE ListZ(_, _, _, _)
ListZ(locs, acc, x, z) ==
    IF z = GridSize THEN [kind |-> "Ok", offsets |-> acc]
    ELSE LET loc == chunk_location(locs, x, z)
             pushed == IF loc.loc.begin_sector # 0 /\ loc.loc.sector_count # 0
                       THEN Append(acc, loc.loc) ELSE acc
         IN  IF loc.kind # "Ok" THEN [kind |-> loc.kind, offsets |-> acc]
             ELSE IF Evaluated(pushed) THEN ListZ(locs, pushed, x, z + 1)
             ELSE [kind |-> "Ok", offsets |-> acc]

RECURSIVE ListX(_, _, _)
ListX(locs, acc, x) ==
    IF x = GridSize THEN [kind |-> "Ok", offsets |-> acc]
    ELSE LET row == ListZ(locs, acc, x, 0)
         IN  IF row.kind # "Ok" THEN row ELSE ListX(locs, row.offsets, x + 1)

\* offsets.sort_by(|o1, o2| o2.begin_sector.cmp(&o1.begin_sector)): a stable
\* sort, largest begin_sector first.
SectorDescending(o1, o2) == o1.begin_sector > o2.begin_sector
SectorAscending(o1, o2) == o1.begin_sector < o2.begin_sector

sort_offsets_ascending(offs) == SortSeq(offs, SectorAscending)

sort_offsets(offs) == SortSeq(offs, SectorDescending)


(***************************************************************************)
(* anvil/mod.rs: Region::load_chunk_at_location                            *)
(***************************************************************************)
load_chunk_at_location(d, pos, locs, x, z) ==
    LET location == chunk_location(locs, x, z)
    IN  IF location.kind # "Ok"
        THEN [kind |-> location.kind, ex |-> location.ex, ez |-> location.ez,
              bytes |-> <<>>, pos |-> pos]
        ELSE IF location.loc.begin_sector # 0 /\ location.loc.sector_count # 0
        THEN LET l == load_chunk(d, location.loc)
             IN  [kind |-> l.kind, ex |-> 0, ez |-> 0, bytes |-> l.dest,
                  pos |-> l.pos]
        ELSE [kind |-> "ChunkNotFound", ex |-> 0, ez |-> 0, bytes |-> <<>>,
              pos |-> pos]

(***************************************************************************)
(* anvil/mod.rs: Builder                                                   *)
(***************************************************************************)
\* location: offset.to_be_bytes()[1..4], then sectors.
Builder_location(inner, offset, sectors) ==
    inner \o <<BeByte(offset, 65536), BeByte(offset, 256), BeByte(offset, 1),
               sectors>>

Builder_build(inner) ==
    LET padded_sector_count == (Len(inner) \div SECTOR_SIZE) + 1
    IN  [i \in 1..(padded_sector_count * SECTOR_SIZE) |->
            IF i <= Len(inner) THEN inner[i] ELSE 0]

Builder_build_unpadded(inner) == inner

(***************************************************************************)
(* The sources given to Region::new that no Builder made: region files.    *)
(* A file is a location table (lay), a timestamp table (ts) and the chunk  *)
(* sectors that follow the header (body, from sector 2 on).                *)
(***************************************************************************)
ShortLengths == {0, 4, 4096, 8191}

\* <<sector offset, sector count>> of slot s.
LayoutRecord(lay, s) ==
    CASE lay = "empty" -> <<0, 0>>
      [] lay = "one" -> IF s = 0 THEN <<2, 1>> ELSE <<0, 0>>
      [] lay = "mixed" ->
            CASE s = 0 -> <<2, 1>>
              [] s = 31 -> <<3, 1>>
              [] s = 2 -> <<5, 0>>
              [] s = 992 -> <<4, 1>>
              [] s = 33 -> <<0, 1>>
              [] s = 1023 -> <<66051, 4>>
              [] OTHER -> <<0, 0>>
      [] lay = "packed" ->
            CASE s = 5 -> <<4, 1>>
              [] s = 9 -> <<3, 1>>
              [] OTHER -> <<2, 1>>
      [] lay = "spread" -> <<2 + ((7 * s + 3) % 1024), 1>>

TsRecord(ts, s) ==
    CASE ts = "zero" -> <<0, 0, 0, 0>>
      [] ts = "set" -> <<0, 0, 1, 44>>
      [] ts = "odd" -> IF s % 2 = 1 THEN <<0, 1, 0, 5>> ELSE <<0, 0, 0, 0>>

EncU32(n) == <<BeByte(n, 16777216), BeByte(n, 65536), BeByte(n, 256), BeByte(n, 1)>>

\* The frame of the chunk in sector sec: len, scheme, then len - 1 bytes.
ChunkPayload(sec) == <<10, 0, 1, 64 + sec, 0>>
ChunkFrame(kind, sec) ==
    LET magic == CASE kind = "gzip" -> GzipMagic
                   [] kind = "corrupt" -> 0
                   [] OTHER -> ZlibMagic
        scheme == CASE kind = "gzip" -> SchemeGzip
                    [] kind = "bad" -> 3
                    [] OTHER -> SchemeZlib
        stream == <<magic, Len(ChunkPayload(sec))>> \o ChunkPayload(sec)
    IN  EncU32(Len(stream) + 1) \o <<scheme>> \o stream

FileByte(lay, ts, body, i) ==
    IF i < SECTOR_SIZE
    THEN LET rec == LayoutRecord(lay, i \div 4)
         IN  <<BeByte(rec[1], 65536), BeByte(rec[1], 256), BeByte(rec[1], 1),
               rec[2]>>[(i % 4) + 1]
    ELSE IF i < HEADER_SIZE
    THEN TsRecord(ts, (i - SECTOR_SIZE) \div 4)[(i % 4) + 1]
    ELSE LET sec == i \div SECTOR_SIZE
             frame == ChunkFrame(body[sec - 1], sec)
         IN  IF (i % SECTOR_SIZE) < Len(frame) THEN frame[(i % SECTOR_SIZE) + 1]
             ELSE 0

File(lay, ts, body, len) == [i \in 1..len |-> FileByte(lay, ts, body, i - 1)]

WholeFile(lay, ts, body) ==
    File(lay, ts, body, HEADER_SIZE + SECTOR_SIZE * Len(body))

GivenSources ==
    { WholeFile("empty", "zero", <<>>),
      WholeFile("empty", "odd", <<>>),
      WholeFile("one", "zero", <<"zlib">>),
      WholeFile("one", "set", <<"gzip">>),
      WholeFile("mixed", "odd", <<"zlib", "gzip", "bad">>),
      WholeFile("mixed", "set", <<"zlib", "zlib", "zlib">>),
      WholeFile("mixed", "zero", <<"corrupt", "zlib">>),
      WholeFile("packed", "set", <<"zlib", "zlib", "zlib">>),
      WholeFile("packed", "zero", <<"zlib", "gzip", "zlib">>),
      WholeFile("packed", "odd", <<"zlib", "zlib">>),
      WholeFile("spread", "set", <<"zlib", "zlib">>),
      WholeFile("spread", "odd", <<"zlib", "bad">>) }
    \cup {File("one", "set", <<>>, len) : len \in ShortLengths}

\* The arguments of the model's calls.
Coords == {0, 31, 32}
BuilderOffsets == {0, 2, 3, 16777218}
BuilderSectors == {0, 1, 2}

(***************************************************************************)
(* The operations on Builder and Region.                                   *)
(***************************************************************************)
BuilderLocation ==
    /\ apc = "builder"
    /\ Len(bld) < 4 * MaxLocations
    /\ \E offset \in BuilderOffsets, sectors \in BuilderSectors :
          bld' = Builder_location(bld, offset, sectors)
    /\ UNCHANGED <<apc, made, data, dpos, locations, timestamps, ret, offsets,
                   buf, fcalls, trace>>
    /\ UNCHANGED <<nbtVars, metaVars>>

BuilderBuild ==
    /\ apc = "builder"
    /\ data' = Builder_build(bld)
    /\ made' = "build"
    /\ apc' = "source"
    /\ UNCHANGED <<bld, dpos, locations, timestamps, ret, offsets, buf, fcalls,
                   trace>>
    /\ UNCHANGED <<nbtVars, metaVars>>

BuilderBuildUnpadded ==
    /\ apc = "builder"
    /\ data' = Builder_build_unpadded(bld)
    /\ made' = "build_unpadded"
    /\ apc' = "source"
    /\ UNCHANGED <<bld, dpos, locations, timestamps, ret, offsets, buf, fcalls,
                   trace>>
    /\ UNCHANGED <<nbtVars, metaVars>>

RegionNew ==
    /\ apc = "source"
    /\ LET r == region_new(data, dpos)
       IN  /\ apc' = IF r.kind = "Ok" THEN "open" ELSE "panic"
           /\ locations' = r.locations
           /\ timestamps' = r.timestamps
           /\ dpos' = r.pos
           /\ ret' = Result("new", 0, 0, r.kind, NoLocation, 0, 0, <<>>)
    /\ UNCHANGED <<bld, made, data, offsets, buf, fcalls, trace>>
    /\ UNCHANGED <<nbtVars, metaVars>>

ChunkLocationCall ==
    /\ apc = "open"
    /\ \E x \in Coords, z \in Coords : ret' = chunk_location(locations, x, z)
    /\ offsets' = <<>> /\ buf' = <<>> /\ fcalls' = <<>> /\ trace' = <<>>
    /\ UNCHANGED <<apc, bld, made, data, dpos, locations, timestamps>>
    /\ UNCHANGED <<nbtVars, metaVars>>

LoadChunkAtLocation ==
    /\ apc = "open"
    /\ \E x \in Coords, z \in Coords :
          LET r == load_chunk_at_location(data, dpos, locations, x, z)
          IN  /\ ret' = Result("load_chunk_at_location", x, z, r.kind,
                               NoLocation, r.ex, r.ez, r.bytes)
              /\ dpos' = r.pos
              /\ buf' = r.bytes
    /\ offsets' = <<>> /\ fcalls' = <<>> /\ trace' = <<>>
    /\ UNCHANGED <<apc, bld, made, data, locations, timestamps>>
    /\ UNCHANGED <<nbtVars, metaVars>>

\* load_chunk_nbt_at_location: load_chunk_at_location(x, z)?, then
\* Ok(decompress_chunk(&data)).
LoadChunkNbtAtLocation ==
    /\ \E x \in Coords, z \in Coords :
          LET r == load_chunk_at_location(data, dpos, locations, x, z)
              nbt == decompress_chunk(r.bytes)
              kind == IF r.kind # "Ok" THEN r.kind ELSE nbt.kind
          IN  /\ apc = "open"
              /\ ret' = Result("load_chunk_nbt_at_location", x, z, kind,
                               NoLocation, r.ex, r.ez,
                               IF kind = "Ok" THEN nbt.bytes ELSE <<>>)
              /\ dpos' = r.pos
              /\ buf' = r.bytes
              /\ apc' = IF kind = "Panic" THEN "panic" ELSE "open"
    /\ offsets' = <<>> /\ fcalls' = <<>> /\ trace' = <<>>
    /\ UNCHANGED <<bld, made, data, locations, timestamps>>
    /\ UNCHANGED <<nbtVars, metaVars>>

\* for_each_chunk up to its loop: the list is built and sorted, or
\* chunk_location's error is returned.
ForEachChunk ==
    /\ apc = "open"
    /\ LET l == ListX(locations, <<>>, 0)
       IN  IF l.kind = "Ok"
           THEN /\ offsets' = sort_offsets(l.offsets)
                /\ apc' = "each"
                /\ ret' = Result("for_each_chunk", 0, 0, "Running", NoLocation,
                                 0, 0, <<>>)
           ELSE /\ offsets' = <<>>
                /\ apc' = "open"
                /\ ret' = Result("for_each_chunk", 0, 0, l.kind, NoLocation,
                                 0, 0, <<>>)
    /\ buf' = <<>> /\ fcalls' = <<>> /\ trace' = <<>>
    /\ UNCHANGED <<bld, made, data, dpos, locations, timestamps>>
    /\ UNCHANGED <<nbtVars, metaVars>>

\* One turn of the loop: offsets.pop(), load_chunk(..)?, decompress_chunk,
\* f(location.x, location.z, &raw).
ForEachVisit ==
    /\ apc = "each"
    /\ offsets # <<>>
    /\    LET location == offsets[Len(offsets)]
              l == load_chunk(data, location)
              raw == decompress_chunk(l.dest)
              loaded == [ev |-> "load", x |-> location.x, z |-> location.z]
              called == [ev |-> "f", x |-> location.x, z |-> location.z]
          IN  /\ offsets' = SubSeq(offsets, 1, Len(offsets) - 1)
              /\ dpos' = l.pos
              /\ buf' = l.dest
              /\ IF l.kind # "Ok"
                 THEN /\ apc' = "open"
                      /\ ret' = [ret EXCEPT !.kind = l.kind]
                      /\ trace' = Append(trace, loaded)
                      /\ fcalls' = fcalls
                 ELSE IF raw.kind # "Ok"
                 THEN /\ apc' = "panic"
                      /\ ret' = [ret EXCEPT !.kind = "Panic"]
                      /\ trace' = Append(trace, loaded)
                      /\ fcalls' = fcalls
                 ELSE /\ apc' = "each"
                      /\ ret' = ret
                      /\ trace' = Append(Append(trace, loaded), called)
                      /\ fcalls' = Append(fcalls, [x |-> location.x,
                                                   z |-> location.z,
                                                   raw |-> raw.bytes])
    /\ UNCHANGED <<bld, made, data, locations, timestamps>>
    /\ UNCHANGED <<nbtVars, metaVars>>

ForEachReturn ==
    /\ apc = "each"
    /\ offsets = <<>>
    /\ apc' = "open"
    /\ ret' = [ret EXCEPT !.kind = "Ok"]
    /\ UNCHANGED <<bld, made, data, dpos, locations, timestamps, offsets, buf,
                   fcalls, trace>>
    /\ UNCHANGED <<nbtVars, metaVars>>

(***************************************************************************)
(* A caller's ChunkMeta::new on a slice of its own.                        *)
(***************************************************************************)
MetaBytes == {0, 1, 2, 127}

RECURSIVE SeqsUpTo(_, _)
SeqsUpTo(S, n) ==
    IF n = 0 THEN {<<>>}
    ELSE LET shorter == SeqsUpTo(S, n - 1)
         IN  shorter \cup {Append(q, b) : q \in {t \in shorter : Len(t) = n - 1},
                                           b \in S}

MetaInputs == SeqsUpTo(MetaBytes, MaxMetaLen)

ChunkMetaNew ==
    /\ mret = NoMeta
    /\ mdata \in MetaInputs
    /\ mret' = ChunkMeta_new(mdata)
    /\ UNCHANGED mdata
    /\ UNCHANGED <<nbtVars, anvilVars>>

(***************************************************************************)
(* The specifications: the parser on an encoder's bytes, the region on a   *)
(* built or given source, ChunkMeta::new on a slice, and all of them.      *)
(***************************************************************************)
MetaOff ==
    /\ mdata = <<>>
    /\ mret = [kind |-> "Off", len |-> 0, compression_scheme |-> 0]

NbtOff ==
    /\ phase = "off"
    /\ reader = <<>>
    /\ layers = <<>>
    /\ last = NoResult
    /\ out = <<>>
    /\ calls = 0
    /\ nread = 0
    /\ prior = <<>>
    /\ helper = NoHelper
    /\ doc = <<>>
    /\ enc = <<>>
    /\ valid = TRUE

AnvilOff ==
    /\ apc = "off"
    /\ bld = <<>>
    /\ made = "none"
    /\ data = <<>>
    /\ dpos = 0
    /\ locations = <<>>
    /\ timestamps = <<>>
    /\ ret = NoRet
    /\ offsets = <<>>
    /\ buf = <<>>
    /\ fcalls = <<>>
    /\ trace = <<>>

InitNbt ==
    /\ phase = "encode"
    /\ reader = <<>>
    /\ layers = <<>>
    /\ last = NoResult
    /\ out = <<>>
    /\ calls = 0
    /\ nread = 0
    /\ prior = <<>>
    /\ helper = NoHelper
    /\ doc = <<>>
    /\ enc = <<>>
    /\ valid = TRUE
    /\ AnvilOff
    /\ MetaOff

NextNbt ==
    \/ EncodeLeaf
    \/ EncodeCompound
    \/ EncodeList
    \/ EncodeEnd
    \/ EncodeFinish
    \/ ParserNext

SpecNbt == InitNbt /\ [][NextNbt]_vars

\* The parser on any input: a document, a part of one, or one with a stray
\* End tag.
NextNbtAny ==
    \/ EncodeLeaf
    \/ EncodeCompound
    \/ EncodeList
    \/ EncodeEnd
    \/ EncodeFinish
    \/ EncodeCut
    \/ EncodeStrayEnd
    \/ ParserNext

SpecNbtAny == InitNbt /\ [][NextNbtAny]_vars

\* The parser and the helpers over it, on a document.
NextNbtHelpers ==
    \/ EncodeLeaf
    \/ EncodeCompound
    \/ EncodeList
    \/ EncodeEnd
    \/ EncodeFinish
    \/ ParserNext
    \/ SkipCompound
    \/ FindList

SpecNbtHelpers == InitNbt /\ [][NextNbtHelpers]_vars

InitAnvil ==
    /\ NbtOff
    /\ MetaOff
    /\ \/ apc = "builder" /\ made = "none" /\ data = <<>>
       \/ apc = "source" /\ made = "given" /\ data \in GivenSources
    /\ bld = <<>>
    /\ dpos = 0
    /\ locations = <<>>
    /\ timestamps = <<>>
    /\ ret = NoRet
    /\ offsets = <<>>
    /\ buf = <<>>
    /\ fcalls = <<>>
    /\ trace = <<>>

NextAnvil ==
    \/ BuilderLocation
    \/ BuilderBuild
    \/ BuilderBuildUnpadded
    \/ RegionNew
    \/ ChunkLocationCall
    \/ LoadChunkAtLocation
    \/ LoadChunkNbtAtLocation
    \/ ForEachChunk
    \/ ForEachVisit
    \/ ForEachReturn

SpecAnvil == InitAnvil /\ [][NextAnvil]_vars

InitMeta ==
    /\ NbtOff
    /\ AnvilOff
    /\ mdata \in MetaInputs
    /\ mret = NoMeta

NextMeta == ChunkMetaNew

SpecMeta == InitMeta /\ [][NextMeta]_vars

Init == InitNbt \/ InitAnvil \/ InitMeta

Next == NextNbt \/ NextNbtAny \/ NextNbtHelpers \/ NextAnvil \/ NextMeta

Spec == Init /\ [][Next]_vars


(***************************************************************************)
(* Reading the region's state in the claims.                               *)
(***************************************************************************)
\* The location record of slot (x, z) as the header holds it: a 24-bit
\* big-endian sector offset and a sector count.
DiskOffset(x, z) ==
    LET p == 4 * (x + 32 * z)
    IN  ByteAt(data, p) * 65536 + ByteAt(data, p + 1) * 256 + ByteAt(data, p + 2)
DiskCount(x, z) == ByteAt(data, 4 * (x + 32 * z) + 3)

\* The timestamp of slot s as the header holds it.
DiskTimestamp(s) ==
    ByteAt(data, 4096 + 4 * s) * 16777216 + ByteAt(data, 4096 + 4 * s + 1) * 65536
        + ByteAt(data, 4096 + 4 * s + 2) * 256 + ByteAt(data, 4096 + 4 * s + 3)

\* The begin_sector of the chunk a call of f was made for.
BeginOf(call) == locations[call.x + 32 * call.z].begin_sector

(***************************************************************************)
(* C3: for_each_chunk, whatever mix of present and absent slots the        *)
(* directory holds, calls f exactly once for every present chunk, with the *)
(* chunk's x and z, never for an absent slot, and returns Ok unless a load *)
(* failed.                                                                 *)
(***************************************************************************)
C3_EveryPresentChunkOnce ==
    (apc = "open" /\ ret.op = "for_each_chunk") =>
        \/ ret.kind = "IO"
        \/ /\ ret.kind = "Ok"
           /\ \A x \in 0..31, z \in 0..31 :
                 Cardinality({i \in 1..Len(fcalls) :
                                 fcalls[i].x = x /\ fcalls[i].z = z})
                    = IF locations[x + 32 * z].present THEN 1 ELSE 0

(***************************************************************************)
(* C4: within one for_each_chunk run f is called in ascending begin_sector *)
(* order, and every call of f comes right after the load of its own chunk. *)
(***************************************************************************)
C4_AscendingSectors ==
    (ret.op = "for_each_chunk") =>
        /\ \A i \in 1..(Len(fcalls) - 1) :
              BeginOf(fcalls[i]) <= BeginOf(fcalls[i + 1])
        /\ \A k \in 1..Len(trace) :
              trace[k].ev = "f" =>
                  /\ k > 1
                  /\ trace[k - 1] = [ev |-> "load", x |-> trace[k].x, z |-> trace[k].z]
        /\ Len(SelectSeq(trace, LAMBDA e : e.ev = "f")) = Len(fcalls)

\* Two chunks were visited, the one in the lower sector first, and the first
\* is not the first slot of the directory.
C4_Witness ==
    /\ ret.op = "for_each_chunk"
    /\ Len(fcalls) >= 2
    /\ BeginOf(fcalls[1]) < BeginOf(fcalls[2])
    /\ <<fcalls[1].x, fcalls[1].z>> # <<0, 0>>

(***************************************************************************)
(* C5: with a complete header, for every (x, z) below 32: o being the      *)
(* 24-bit big-endian value of bytes 0..2 and c byte 3 of the record at     *)
(* byte 4 * (x + 32 * z), chunk_location(x, z) is ChunkLocation{o, c, x,   *)
(* z} when o > 0 and c > 0, and ChunkNotFound otherwise.                   *)
(***************************************************************************)
C5_Expected(x, z) ==
    IF DiskOffset(x, z) > 0 /\ DiskCount(x, z) > 0
    THEN Result("chunk_location", x, z, "Ok",
                ChunkLocation(DiskOffset(x, z), DiskCount(x, z), x, z), 0, 0, <<>>)
    ELSE Result("chunk_location", x, z, "ChunkNotFound", NoLocation, 0, 0, <<>>)

C5_LocationFromHeader ==
    /\ (apc = "open" /\ ret.op = "new") =>
          \A x \in 0..31, z \in 0..31 :
              chunk_location(locations, x, z) = C5_Expected(x, z)
    /\ (ret.op = "chunk_location" /\ ret.ax < 32 /\ ret.az < 32) =>
          ret = C5_Expected(ret.ax, ret.az)

C5_Witness ==
    /\ ret.op = "chunk_location"
    /\ ret.ax = 31 /\ ret.az = 0
    /\ ret.kind = "Ok"
    /\ ret.loc = ChunkLocation(3, 1, 31, 0)
    /\ chunk_location(locations, 31, 31).loc = ChunkLocation(66051, 4, 31, 31)
    /\ chunk_location(locations, 0, 31).loc = ChunkLocation(4, 1, 0, 31)

(***************************************************************************)
(* C6: the source Builder::build() returns can be opened with Region::new, *)
(* and with location(2, 1) as its first record chunk_location(0, 0) is     *)
(* ChunkLocation{2, 1, 0, 0}.                                              *)
(***************************************************************************)
C6_BuiltRegionOpens ==
    (made = "build" /\ ret.op # "none") =>
        /\ apc # "panic"
        /\ (Len(bld) >= 4 /\ SubSeq(bld, 1, 4) = <<0, 0, 2, 1>>) =>
              chunk_location(locations, 0, 0).loc = ChunkLocation(2, 1, 0, 0)

(***************************************************************************)
(* C7: Region::new over a source of fewer than 8192 bytes reports          *)
(* IO(UnexpectedEof) to the caller as an error value; it does not abort.   *)
(***************************************************************************)
C7_ShortSourceIsIoError ==
    (ret.op = "new" /\ SrcLen(data) < HEADER_SIZE) =>
        (apc # "panic" /\ ret.kind = "IO")

(***************************************************************************)
(* C8: chunk_location(x, z) with x >= 32 or z >= 32 is InvalidOffset(x, z) *)
(* with the coordinates asked for, whatever slot (x mod 32, z mod 32)      *)
(* holds.                                                                  *)
(***************************************************************************)
WideCoords == {0, 31, 32, 33, 63, 64, 1055}

C8_InvalidOffset ==
    /\ (ret.op = "chunk_location" /\ (ret.ax >= 32 \/ ret.az >= 32)) =>
          (ret.kind = "InvalidOffset" /\ ret.ex = ret.ax /\ ret.ez = ret.az)
    /\ (apc = "open" /\ ret.op = "new") =>
          \A x \in WideCoords, z \in WideCoords :
              (x >= 32 \/ z >= 32) =>
                  chunk_location(locations, x, z)
                     = Result("chunk_location", x, z, "InvalidOffset",
                              NoLocation, x, z, <<>>)

\* Asked with x out of range alone, where the slot the coordinates wrap to
\* holds a chunk.
C8_Witness ==
    /\ ret.op = "chunk_location"
    /\ ret.ax = 32 /\ ret.az = 0
    /\ ret.kind = "InvalidOffset" /\ ret.ex = 32 /\ ret.ez = 0
    /\ locations[chunk_offset(32, 0)].present

(***************************************************************************)
(* C9: after Region::new a slot is present exactly when its timestamp is   *)
(* not 0: a present slot whose stored timestamp is 0 has timestamp 1, an   *)
(* absent slot has timestamp 0, and every other timestamp is the stored    *)
(* big-endian value.                                                       *)
(***************************************************************************)
C9_TimestampsMatchPresence ==
    (apc = "open" /\ ret.op = "new") =>
        \A s \in 0..(SlotCount - 1) :
            /\ locations[s].present <=> timestamps[s] # 0
            /\ timestamps[s] =
                  IF locations[s].present /\ DiskTimestamp(s) = 0 THEN 1
                  ELSE IF ~locations[s].present THEN 0
                  ELSE DiskTimestamp(s)

\* A region with a present slot stored with timestamp 0, an absent slot
\* stored with a timestamp, and a present slot that keeps its timestamp.
C9_Witness ==
    /\ apc = "open" /\ ret.op = "new"
    /\ locations[0].present /\ DiskTimestamp(0) = 0 /\ timestamps[0] = 1
    /\ ~locations[33].present /\ DiskTimestamp(33) # 0 /\ timestamps[33] = 0
    /\ locations[31].present /\ timestamps[31] = 65541

(***************************************************************************)
(* C10: a chunk framed with scheme 1 (Gzip) is accepted on every read path *)
(* as scheme 2 is: its payload goes to the gzip decompressor, whose output *)
(* load_chunk_nbt_at_location returns and for_each_chunk passes to f.      *)
(***************************************************************************)
C10_GzipAccepted ==
    (/\ ret.op \in {"load_chunk_nbt_at_location", "for_each_chunk"}
     /\ Len(buf) >= 5
     /\ buf[5] = SchemeGzip
     /\ GzDecoder(SubSeq(buf, 6, Len(buf))).ok)
    => /\ apc # "panic"
       /\ ret.op = "load_chunk_nbt_at_location" =>
             (ret.kind = "Ok" /\ ret.bytes = GzDecoder(SubSeq(buf, 6, Len(buf))).bytes)
       /\ ret.op = "for_each_chunk" =>
             (/\ fcalls # <<>>
              /\ fcalls[Len(fcalls)].raw = GzDecoder(SubSeq(buf, 6, Len(buf))).bytes)

\* The same read paths on a scheme-2 chunk.
C10_ZlibAccepted ==
    (/\ ret.op \in {"load_chunk_nbt_at_location", "for_each_chunk"}
     /\ Len(buf) >= 5
     /\ buf[5] = SchemeZlib
     /\ ZlibDecoder(SubSeq(buf, 6, Len(buf))).ok)
    => /\ apc # "panic"
       /\ ret.op = "load_chunk_nbt_at_location" =>
             (ret.kind = "Ok" /\ ret.bytes = ZlibDecoder(SubSeq(buf, 6, Len(buf))).bytes)

(***************************************************************************)
(* C11: every failure of load_chunk_nbt_at_location(x, z) comes back as an *)
(* Err value and the call never aborts: coordinates out of range give      *)
(* InvalidOffset, an absent slot ChunkNotFound, a source that ends inside  *)
(* the chunk's sectors IO, and a loaded chunk whose scheme byte is neither *)
(* 1 nor 2 InvalidChunkMeta.                                               *)
(***************************************************************************)
C11_LoadErrorsReturned ==
    (ret.op = "load_chunk_nbt_at_location") =>
        LET x == ret.ax
            z == ret.az
            loc == locations[chunk_offset(x, z)]
        IN  /\ (x >= 32 \/ z >= 32) =>
                  (ret.kind = "InvalidOffset" /\ apc # "panic")
            /\ (x < 32 /\ z < 32 /\ ~loc.present) =>
                  (ret.kind = "ChunkNotFound" /\ apc # "panic")
            /\ (/\ x < 32 /\ z < 32 /\ loc.present
                /\ SrcLen(data) < (loc.begin_sector + loc.sector_count) * SECTOR_SIZE)
                  => (ret.kind = "IO" /\ apc # "panic")

C11_FailuresAreErrValues ==
    /\ C11_LoadErrorsReturned
    /\ (/\ ret.op = "load_chunk_nbt_at_location"
        /\ Len(buf) >= 5
        /\ buf[5] \notin {SchemeGzip, SchemeZlib})
          => (ret.kind = "InvalidChunkMeta" /\ apc # "panic")

(***************************************************************************)
(* C12: ChunkMeta::new(data) is InsufficientData exactly when data has     *)
(* fewer than 5 bytes (whatever its bytes are: the length is tested        *)
(* first); otherwise InvalidChunkMeta exactly when byte 4 is neither 1 nor *)
(* 2; otherwise Ok, len being the big-endian u32 of bytes 0..3 and the     *)
(* scheme Gzip for 1 and Zlib for 2.                                       *)
(***************************************************************************)
C12_ChunkMeta ==
    (mret.kind \notin {"None", "Off"}) =>
        IF Len(mdata) < 5 THEN mret.kind = "InsufficientData"
        ELSE IF mdata[5] \notin {1, 2} THEN mret.kind = "InvalidChunkMeta"
        ELSE /\ mret.kind = "Ok"
             /\ mret.len = mdata[1] * 16777216 + mdata[2] * 65536
                              + mdata[3] * 256 + mdata[4]
             /\ mdata[5] = 1 => mret.compression_scheme = SchemeGzip
             /\ mdata[5] = 2 => mret.compression_scheme = SchemeZlib

\* A frame header with all four length bytes different, scheme Gzip, and a
\* byte after it.
C12_Witness ==
    /\ mret.kind = "Ok"
    /\ mdata = <<127, 2, 0, 1, 1, 0>>
    /\ mret.len = 2130837505
    /\ mret.compression_scheme = SchemeGzip

(***************************************************************************)
(* C13: load_chunk_at_location(x, z) on an absent slot is ChunkNotFound    *)
(* and leaves the source where it was; on a present slot it returns the    *)
(* sector_count * 4096 source bytes that start at begin_sector * 4096, and *)
(* when the source ends before them it is IO and returns no buffer.        *)
(***************************************************************************)
C13_LoadChunkAtLocation ==
    [][(apc = "open" /\ ret'.op = "load_chunk_at_location"
           /\ ret'.ax < 32 /\ ret'.az < 32) =>
          LET loc == locations[ret'.ax + 32 * ret'.az]
              n == loc.sector_count * 4096
              at == loc.begin_sector * 4096
          IN  IF ~loc.present
              THEN /\ ret'.kind = "ChunkNotFound"
                   /\ ret'.bytes = <<>>
                   /\ dpos' = dpos
              ELSE IF Len(data) >= at + n
              THEN /\ ret'.kind = "Ok"
                   /\ Len(ret'.bytes) = n
                   /\ \A i \in 1..n : ret'.bytes[i] = data[at + i]
              ELSE /\ ret'.kind = "IO"
                   /\ ret'.bytes = <<>>]_vars

\* The chunk of slot (31, 0), one sector at sector 3, was loaded from a
\* region that also holds a slot beyond the end of the source.
C13_Witness ==
    /\ ret.op = "load_chunk_at_location"
    /\ ret.ax = 31 /\ ret.az = 0
    /\ ret.kind = "Ok"
    /\ Len(ret.bytes) = 4096
    /\ ret.bytes = SubSeq(data, 3 * 4096 + 1, 4 * 4096)
    /\ ret.bytes[5] = SchemeGzip
    /\ locations[1023].present
    /\ Len(data) < locations[1023].begin_sector * 4096

(***************************************************************************)
(* C14: once a next() call has failed with EOF, the next() call after it   *)
(* fails with EOF too (and so every later one), and no call that fails     *)
(* with EOF changes the layer stack.                                       *)
(***************************************************************************)
C14_EofIsSticky ==
    [][(calls' = calls + 1) =>
          /\ last.kind = "EOF" => last'.kind = "EOF"
          /\ last'.kind = "EOF" => layers' = layers]_vars

\* A document was read to its end and the two calls after it were made.
C14_Witness ==
    /\ phase = "parse" /\ valid
    /\ calls = Len(doc) + 2
    /\ last.kind = "EOF"
    /\ layers = prior

(***************************************************************************)
(* C15: on every input, truncated ones included, next() fails with EOF     *)
(* only when the layer stack is empty; when the input ends while a         *)
(* compound or a list is open, the call that finds the end fails with IO.  *)
(***************************************************************************)
C15_EofOnlyAtDepthZero ==
    [][(calls' = calls + 1) =>
          /\ last'.kind = "EOF" => layers = <<>>
          /\ (reader = <<>> /\ layers # <<>> /\ last'.kind # "Ok")
                => last'.kind = "IO"]_vars

\* What does hold: with a list on top of the stack the end of the input is
\* never EOF.
C15_NoEofInList ==
    [][(calls' = calls + 1 /\ last'.kind = "EOF") =>
          (layers = <<>> \/ Top(layers).kind = "Compound")]_vars

(***************************************************************************)
(* C16: an End tag (byte 0) gives CompoundEnd and pops the top layer only  *)
(* when the top layer is Compound; with an empty stack it is the error     *)
(* InvalidTag(0); and an End in list context, an element of a list of End  *)
(* elements with a positive count, is the error InvalidTag(0) too, not an  *)
(* abort.                                                                  *)
(***************************************************************************)
C16_EndOutsideLists ==
    [][(calls' = calls + 1) =>
          /\ (last'.kind = "Ok" /\ last'.val = CompoundEnd) =>
                /\ layers # <<>> /\ Top(layers).kind = "Compound"
                /\ layers' = Pop(layers)
                /\ reader[1] = TagEnd
          /\ (layers # <<>> /\ Top(layers).kind = "Compound"
                 /\ reader # <<>> /\ reader[1] = TagEnd) =>
                (last' = Ok(CompoundEnd) /\ layers' = Pop(layers))
          /\ (layers = <<>> /\ reader # <<>> /\ reader[1] = TagEnd) =>
                (last' = Err("InvalidTag", 0) /\ layers' = layers)]_vars

C16_EndTag ==
    [][(calls' = calls + 1) =>
          /\ (last'.kind = "Ok" /\ last'.val = CompoundEnd) =>
                /\ layers # <<>> /\ Top(layers).kind = "Compound"
                /\ layers' = Pop(layers)
          /\ (layers = <<>> /\ reader # <<>> /\ reader[1] = TagEnd) =>
                last' = Err("InvalidTag", 0)
          /\ (layers # <<>> /\ Top(layers).kind = "List"
                 /\ Top(layers).tag = TagEnd /\ Top(layers).rem > 0) =>
                last' = Err("InvalidTag", 0)]_vars

(***************************************************************************)
(* C17: a value next() returns with the stack empty or a Compound on top   *)
(* has a name, the one read from the stream (a u16 length and that many    *)
(* bytes after the tag byte); a value returned with a List on top has      *)
(* none, Compound and List elements included; ListEnd and CompoundEnd have *)
(* none.                                                                   *)
(***************************************************************************)
C17_NamePresence ==
    [][(calls' = calls + 1 /\ last'.kind = "Ok") =>
          LET v == last'.val
          IN  IF IsTerminator(v) THEN v.name = None
              ELSE IF layers = <<>> \/ Top(layers).kind = "Compound"
              THEN /\ v.name # None
                   /\ Len(reader) >= 3
                   /\ v.name = Some(SubSeq(reader, 4,
                                           3 + reader[2] * 256 + reader[3]))
              ELSE v.name = None]_vars

\* A root named "a" holding a list named "a" whose element, a compound, was
\* returned without a name.
C17_Witness ==
    /\ Len(out) >= 3
    /\ out[1].kind = TagCompound /\ out[1].name = Some(<<97>>)
    /\ out[2].kind = TagList /\ out[2].name = Some(<<97>>)
    /\ out[3].kind = TagCompound /\ out[3].name = None
    /\ last = Ok(out[Len(out)])

(***************************************************************************)
(* C19: after any next() calls on any input the depth of the layer stack   *)
(* is the number of Compound and List values returned minus the number of  *)
(* CompoundEnd and ListEnd values returned, and the stack is the stack of  *)
(* the containers opened and not yet closed: every CompoundEnd returned    *)
(* closed a Compound, every ListEnd a List, innermost first.               *)
(***************************************************************************)
\* The kinds of the containers the values s[1..k] leave open, outermost
\* first; <<"Bad">> when a terminator among them closes nothing or a
\* container of the other kind.
RECURSIVE OpenKinds(_, _)
OpenKinds(s, k) ==
    IF k = 0 THEN <<>>
    ELSE LET st == OpenKinds(s, k - 1)
         IN  IF st = <<"Bad">> THEN st
             ELSE CASE s[k].kind = TagCompound -> Append(st, "Compound")
                    [] s[k].kind = TagList -> Append(st, "List")
                    [] s[k].kind = KCompoundEnd ->
                          IF st # <<>> /\ st[Len(st)] = "Compound"
                          THEN SubSeq(st, 1, Len(st) - 1) ELSE <<"Bad">>
                    [] s[k].kind = KListEnd ->
                          IF st # <<>> /\ st[Len(st)] = "List"
                          THEN SubSeq(st, 1, Len(st) - 1) ELSE <<"Bad">>
                    [] OTHER -> st

C19_DepthMatchesEmitted ==
    /\ Len(layers) = DepthAfter(out, Len(out))
    /\ [i \in 1..Len(layers) |-> layers[i].kind] = OpenKinds(out, Len(out))

\* A list was opened and closed, and a second list is open inside the root.
C19_Witness ==
    /\ Len(out) >= 4
    /\ out[Len(out) - 1] = ListEnd
    /\ out[Len(out)].kind = TagList
    /\ Len(layers) = 2
    /\ layers[1].kind = "Compound" /\ layers[2].kind = "List"

(***************************************************************************)
(* C18: skip_compound called right after next() returned Compound(_), on a *)
(* well-formed input, returns Ok; the values it consumed are exactly that  *)
(* compound's content and its CompoundEnd, so that the next value is the   *)
(* compound's following sibling.  The stack it leaves:                     *)
(*   as stated, the stack as it was just before the compound was opened;   *)
(*   as amended, the stack skip_compound was entered with less its top     *)
(*   layer, the compound's: that is the stack before the compound was      *)
(*   opened, except that when the compound is a list element the list's    *)
(*   remaining count is one less, the element being counted.               *)
(***************************************************************************)
SkippedCompound ==
    /\ helper.op = "skip_compound"
    /\ valid
    /\ helper.at >= 1
    /\ out[helper.at].kind = TagCompound

C18_Consumed ==
    /\ helper.kind = "Ok"
    /\ HasEnd(out, helper.at)
    /\ EndOf(out, helper.at) = Len(out)
    /\ out[Len(out)] = CompoundEnd
    /\ last = Ok(CompoundEnd)
    /\ calls = Len(out)
    /\ out = SubSeq(doc, 1, Len(out))

C18_SkipRestoresStack ==
    SkippedCompound => (C18_Consumed /\ layers = helper.found)

C18_SkipPopsCompound ==
    SkippedCompound => (C18_Consumed /\ layers = Pop(helper.entry))

\* The compound skipped is not the root and holds a container.
C18_Witness ==
    /\ SkippedCompound
    /\ helper.kind = "Ok"
    /\ helper.at >= 2
    /\ Len(out) >= helper.at + 3
    /\ IsOpener(out[helper.at + 1])
    /\ layers = Pop(helper.entry)

(***************************************************************************)
(* C20: find_list(parser, name) consumes values up to the first List value *)
(* whose name is name and returns Ok(size), size being non-negative and    *)
(* numerically the list's declared count, with the list's layer on top of  *)
(* the stack; when the values end without such a list it fails with the    *)
(* parser's error, EOF on a well-formed input.                             *)
(***************************************************************************)
\* The usize limbs of the number n.
UsizeIs(limbs, n) == n >= 0 /\ limbs = <<0, 0, n \div 65536, n % 65536>>

FoundList(k) == out[k].kind = TagList /\ out[k].name = helper.name

C20_Search ==
    (helper.op = "find_list") =>
        IF helper.kind = "Ok"
        THEN /\ Len(out) > helper.at
             /\ FoundList(Len(out))
             /\ \A k \in (helper.at + 1)..(Len(out) - 1) : ~FoundList(k)
             /\ layers # <<>>
             /\ Top(layers) = LayerList(out[Len(out)].v[1], out[Len(out)].v[2])
        ELSE /\ \A k \in (helper.at + 1)..Len(out) : ~FoundList(k)
             /\ helper.kind = last.kind
             /\ valid => helper.kind = "EOF"

C20_FindList ==
    /\ C20_Search
    /\ (helper.op = "find_list" /\ helper.kind = "Ok") =>
          UsizeIs(helper.size, out[Len(out)].v[2])

\* The same for the lists whose declared count is not negative.
C20_FindListNonNegative ==
    /\ C20_Search
    /\ (helper.op = "find_list" /\ helper.kind = "Ok"
           /\ out[Len(out)].v[2] >= 0) =>
          UsizeIs(helper.size, out[Len(out)].v[2])

(***************************************************************************)
(* C21: a next() call that returns an error (EOF, IO, InvalidTag or        *)
(* InvalidName) leaves the layer stack exactly as it found it: no layer is *)
(* pushed or popped and no list's remaining count is changed.              *)
(***************************************************************************)
FailedCall == last.kind \in {"EOF", "IO", "InvalidTag", "InvalidName"}

C21_FailedCallKeepsStack ==
    FailedCall => layers = prior

\* What does hold: a failed call pushes and pops nothing and changes no
\* layer below the top; with a list on top it has counted the element it
\* could not read.
C21_FailedCallKeepsDepth ==
    FailedCall =>
        /\ Len(layers) = Len(prior)
        /\ \A i \in 1..(Len(layers) - 1) : layers[i] = prior[i]
        /\ layers # <<>> =>
              IF Top(prior).kind = "List"
              THEN Top(layers) = LayerList(Top(prior).tag, Top(prior).rem - 1)
              ELSE Top(layers) = Top(prior)

=============================================================================
